---- MODULE Spec2Model ----
(***************************************************************************)
(* Model of lambda-ses-forwarder.py: the SES forwarding lambda handler.    *)
(* Strings that the code splits, lower-cases, parses or formats are        *)
(* sequences of one-character strings; header names are plain strings.     *)
(***************************************************************************)
EXTENDS Integers, Sequences, FiniteSets, TLC

VARIABLES
    recipients,                     \* record['ses']['receipt']['recipients']
    FORWARD_MAPPING,                \* the JSON dictionary of the environment
    VERIFIED_FROM_EMAIL,            \* os.environ.get('VERIFIED_FROM_EMAIL')
    incoming,                       \* the headers of the raw mail stored in S3
    msg,                            \* the headers of the parsed message object
    original_from, reply_to, return_path,
    at_least_one_recipient_found,
    idx,                            \* position of the for loop in recipients
    recipient, verified_from_email, forward_to,   \* locals of the loop body
    pc,                             \* position of the handler
    raw_emails,                     \* calls of ses.send_raw_email, in order
    bounce_emails,                  \* calls of ses.send_email, in order
    error_logged                    \* logger.error of line 117 was called

vars == << recipients, FORWARD_MAPPING, VERIFIED_FROM_EMAIL, incoming, msg,
           original_from, reply_to, return_path, at_least_one_recipient_found,
           idx, recipient, verified_from_email, forward_to, pc, raw_emails,
           bounce_emails, error_logged >>

----------------------------------------------------------------------------
(* Bounds of the model *)

\* longest recipient list of an event under Spec
MaxRecipients == 2
\* longest recipient list of an event under SpecResolve
MaxResolveRecipients == 1

----------------------------------------------------------------------------
(* Python values and string operations *)

\* Python's None: a value that is no string
None == << "None" >>

\* truth value of an optional string: None and '' are false
Truthy(x) == x # None /\ x # << >>

\* position of the first occurrence of character c in s, 0 when absent
IndexOf(s, c) ==
    LET at == { i \in 1..Len(s) : s[i] = c }
    IN IF at = {} THEN 0 ELSE CHOOSE i \in at : \A j \in at : i <= j

\* s.split(c)[0]
SplitFirst(s, c) ==
    LET i == IndexOf(s, c)
    IN IF i = 0 THEN s ELSE SubSeq(s, 1, i - 1)

\* s.split(c)[1], for an s that contains c
SplitSecond(s, c) ==
    SplitFirst(SubSeq(s, IndexOf(s, c) + 1, Len(s)), c)

LowerChar(c) ==
    CASE c = "A" -> "a"
      [] c = "T" -> "t"
      [] c = "D" -> "d"
      [] c = "N" -> "n"
      [] OTHER -> c

\* str.lower()
Lower(s) == [i \in 1..Len(s) |-> LowerChar(s[i])]

RECURSIVE Strip(_)
\* str.strip() for blanks
Strip(s) ==
    IF s = << >> THEN s
    ELSE IF s[1] = " " THEN Strip(Tail(s))
    ELSE IF s[Len(s)] = " " THEN Strip(SubSeq(s, 1, Len(s) - 1))
    ELSE s

\* the characters email.utils quotes a display name for
Specials == {"[", "]", "\\", "(", ")", "<", ">", "@", ",", ":", ";", "\"", "."}

\* email.utils.parseaddr for the forms "addr", "name <addr>" and "\"name\" <addr>":
\* the pair (display name, address)
parseaddr(s) ==
    LET lt == IndexOf(s, "<")
    IN IF lt = 0
       THEN << << >>, Strip(s) >>
       ELSE << SelectSeq(Strip(SubSeq(s, 1, lt - 1)), LAMBDA c : c # "\""),
               SplitFirst(SubSeq(s, lt + 1, Len(s)), ">") >>

\* email.utils.formataddr
formataddr(name, address) ==
    IF name # << >>
    THEN LET quotes == IF \E i \in 1..Len(name) : name[i] \in Specials
                       THEN << "\"" >> ELSE << >>
         IN quotes \o name \o quotes \o << " ", "<" >> \o address \o << ">" >>
    ELSE address

----------------------------------------------------------------------------
(* email.message.Message: an ordered list of headers.  orig marks the      *)
(* headers that were parsed from the raw mail, as opposed to those the     *)
(* handler writes.                                                         *)

\* header names compare case-insensitively
LowerName(n) ==
    CASE n \in {"From", "from", "FROM"} -> "from"
      [] n \in {"Reply-To", "reply-to"} -> "reply-to"
      [] n \in {"Return-Path", "return-path"} -> "return-path"
      [] n \in {"DKIM-Signature", "dkim-signature"} -> "dkim-signature"
      [] n \in {"Sender", "sender"} -> "sender"
      [] OTHER -> n

Named(m, name) == SelectSeq(m, LAMBDA h : LowerName(h.name) = LowerName(name))

\* msg[name]: the value of the first header of that name, or None
GetHeader(m, name) ==
    IF Named(m, name) = << >> THEN None ELSE Named(m, name)[1].value

\* deletion that compares header names case-sensitively
DelHeaderCaseSensitive(m, name) == SelectSeq(m, LAMBDA h : h.name # name)

\* del msg[name]: removes every header of that name
DelHeader(m, name) == SelectSeq(m, LAMBDA h : LowerName(h.name) # LowerName(name))

\* msg[name] = value: appends a header
SetHeader(m, name, value) ==
    Append(m, [name |-> name, value |-> value, orig |-> FALSE])

----------------------------------------------------------------------------
(* The blocks of handler and send_bounce *)

\* FORWARD_MAPPING.get(key)
MapGet(mapping, key) == IF key \in DOMAIN mapping THEN mapping[key] ELSE None

\* reply_to: the Reply-To of the message, defaulting to its From
CaptureReplyTo(m) ==
    IF Truthy(GetHeader(m, "Reply-To")) THEN GetHeader(m, "Reply-To")
    ELSE GetHeader(m, "From")

\* return_path defaulting to the From header instead of reply_to
CaptureReturnPathFromDefault(m) ==
    IF Truthy(GetHeader(m, "Return-Path")) THEN GetHeader(m, "Return-Path")
    ELSE GetHeader(m, "From")

\* return_path: the Return-Path of the message, defaulting to reply_to
CaptureReturnPath(m) ==
    IF Truthy(GetHeader(m, "Return-Path")) THEN GetHeader(m, "Return-Path")
    ELSE CaptureReplyTo(m)

\* remove non-forwarded components
RemoveNonForwarded(m) == DelHeader(DelHeader(m, "DKIM-Signature"), "Sender")

\* deletions that spare the headers the handler wrote itself, as when the
\* deletions happen once, before the loop
RemoveEnvelopeOnce(m) ==
    SelectSeq(m, LAMBDA h :
        ~(h.orig /\ LowerName(h.name) \in {"from", "return-path", "reply-to"}))

\* the three deletions at the top of the loop body
RemoveEnvelope(m) ==
    DelHeader(DelHeader(DelHeader(m, "From"), "Return-Path"), "Reply-To")

DEFAULT_VERIFIED_FROM_PREFIX == << "n", "o", "r", "e", "p", "l", "y" >>

\* verified_from_email for a recipient (not yet lower-cased)
VerifiedFrom(env, rcpt) ==
    LET v == IF Truthy(env) THEN env ELSE DEFAULT_VERIFIED_FROM_PREFIX
    IN IF IndexOf(v, "@") = 0 THEN v \o << "@" >> \o SplitSecond(rcpt, "@") ELSE v

\* the synthesized From header
NewFrom(orig_from, verified) ==
    LET from_tuple == parseaddr(orig_from)
        from_name == IF from_tuple[1] # << >> THEN from_tuple[1] ELSE from_tuple[2]
    IN formataddr(from_name, verified)

\* the local-part looked up before the full address
ResolveLocalFirst(mapping, r) ==
    LET f1 == MapGet(mapping, SplitFirst(r, "@"))
        f2 == IF ~Truthy(f1) THEN MapGet(mapping, r) ELSE f1
    IN IF ~Truthy(f2) THEN MapGet(mapping, SplitFirst(r, "+")) ELSE f2

\* without the lookup of the text before '+'
ResolveNoStrip(mapping, r) ==
    LET f1 == MapGet(mapping, r)
    IN IF ~Truthy(f1) THEN MapGet(mapping, SplitFirst(r, "@")) ELSE f1

\* with a fourth lookup, of the address without its '+' suffix
ResolveUntagged(mapping, r) ==
    LET f1 == MapGet(mapping, r)
        f2 == IF ~Truthy(f1) THEN MapGet(mapping, SplitFirst(r, "@")) ELSE f1
        f3 == IF ~Truthy(f2) THEN MapGet(mapping, SplitFirst(r, "+")) ELSE f2
    IN IF ~Truthy(f3) /\ IndexOf(r, "@") > 0
       THEN MapGet(mapping, SplitFirst(r, "+") \o SubSeq(r, IndexOf(r, "@"), Len(r)))
       ELSE f3

\* the three lookups, for the lower-cased recipient r
Resolve(mapping, r) ==
    LET f1 == MapGet(mapping, r)
        f2 == IF ~Truthy(f1) THEN MapGet(mapping, SplitFirst(r, "@")) ELSE f1
    IN IF ~Truthy(f2) THEN MapGet(mapping, SplitFirst(r, "+")) ELSE f2

\* the flag overwritten by every recipient
MarkFoundLast(found, fwd) == Truthy(fwd)

\* lines 107-108: the flag after a recipient with lookup result fwd
MarkFound(found, fwd) == found \/ Truthy(fwd)

\* an except clause that does not match the error
ExceptNothing(e) == FALSE

\* the except clauses of handler and send_bounce catch ClientError
ExceptClientError(e) == e = "ClientError"

\* the bounce addressed to the return path with its display form kept
BounceDestinationRaw(rp, rcpt) ==
    [ToAddresses |-> << rp >>, CcAddresses |-> << rcpt >>]

\* the Destination of the bounce
BounceDestination(rp, rcpt) ==
    [ToAddresses |-> << parseaddr(rp)[2] >>, CcAddresses |-> << rcpt >>]

\* the Source of the bounce
BounceSource(verified) ==
    formataddr(<< "M", "a", "i", "l", " ", "D", "e", "l", "i", "v", "e", "r", "y", " ",
                  "S", "u", "b", "s", "y", "s", "t", "e", "m" >>, verified)

\* line 116: the condition of the final logger.error
NoRecipientError(found) == ~found

\* a failed bounce tried again
RetryBounce == "bounce"

\* where send_bounce goes after its send_email raised: it logs and returns
AfterBounceFailure == "loop"

----------------------------------------------------------------------------
(* Inputs: the event, the stored mail and the environment *)

Hdr(name, value) == [name |-> name, value |-> value, orig |-> TRUE]

\* From values: with a quoted display name, and a bare address
FromValues == { << "\"", "N", "\"", " ", "<", "s", "@", "x", ">" >>, << "s", "@", "x" >> }
\* Reply-To: no header, an address, a header with an empty value
ReplyToValues == { None, << "r", "@", "y" >>, << >> }
\* Return-Path: no header, an address in angle brackets, a header with an empty value
ReturnPathValues == { None, << "<", "b", "@", "z", ">" >>, << >> }

Optional(name, value) == IF value = None THEN << >> ELSE << Hdr(name, value) >>

\* A stored mail.  extra adds a signature, a Sender and a second From header.
Mail(rp, from, rt, extra) ==
    Optional("Return-Path", rp)
    \o (IF extra THEN << Hdr("DKIM-Signature", << "k" >>), Hdr("sender", << "m", "@", "x" >>) >>
        ELSE << >>)
    \o << Hdr("From", from) >>
    \o (IF extra THEN << Hdr("FROM", << "q", "@", "x" >>) >> ELSE << >>)
    \o Optional("Reply-To", rt)
    \o << Hdr("Subject", << "h", "i" >>) >>

Mails ==
    { Mail(rp, from, rt, extra) :
        rp \in ReturnPathValues, from \in FromValues, rt \in ReplyToValues,
        extra \in BOOLEAN }

\* VERIFIED_FROM_EMAIL: unset, a prefix, an address
VerifiedEnvs == { None, << "f" >>, << "v", "@", "m" >> }

\* recipients of an event under Spec
Recipients ==
    { << "a", "@", "d" >>, << "A", "+", "T", "@", "D" >>, << "z", "@", "d" >> }

\* mappings under Spec
Mappings ==
    { [k \in { << "a" >> } |-> << "x", "@", "o" >>],
      [k \in { << "a", "@", "d" >>, << "z" >> } |->
          IF k = << "z" >> THEN << >> ELSE << "y", "@", "o" >>] }

\* recipients of an event under SpecResolve
ResolveRecipients ==
    { << "a", "@", "d" >>, << "A", "@", "d" >>, << "a", "+", "t", "@", "d" >>,
      << "A", "+", "T", "@", "d" >>, << "a", "+", "t", "+", "t", "@", "d" >> }

\* keys of the mappings under SpecResolve
ResolveKeys ==
    { << "a", "@", "d" >>, << "a", "+", "t", "@", "d" >>, << "a", "+", "t" >>,
      << "a" >>, << "A" >>, << "A", "@", "d" >> }

\* the destination a key is mapped to, different for every key
DestOf(k) == SelectSeq(k, LAMBDA c : c # "@") \o << "@", "o" >>

\* every mapping of some of the keys, each to its destination or to ''
ResolveMappings ==
    UNION { { [k \in D |-> IF k \in E THEN << >> ELSE DestOf(k)] : E \in SUBSET D } :
            D \in SUBSET ResolveKeys }

SeqsUpTo(S, n) == UNION { [1..k -> S] : k \in 0..n }

InitWith(rs, mapping, env, mail) ==
    /\ recipients = rs
    /\ FORWARD_MAPPING = mapping
    /\ VERIFIED_FROM_EMAIL = env
    /\ incoming = mail
    /\ msg = << >>
    /\ original_from = None
    /\ reply_to = None
    /\ return_path = None
    /\ at_least_one_recipient_found = FALSE
    /\ idx = 0
    /\ recipient = None
    /\ verified_from_email = None
    /\ forward_to = None
    /\ pc = "start"
    /\ raw_emails = << >>
    /\ bounce_emails = << >>
    /\ error_logged = FALSE

Init ==
    \E rs \in SeqsUpTo(Recipients, MaxRecipients), mapping \in Mappings,
       env \in VerifiedEnvs, mail \in Mails :
        InitWith(rs, mapping, env, mail)

InitResolve ==
    \E rs \in SeqsUpTo(ResolveRecipients, MaxResolveRecipients),
       mapping \in ResolveMappings :
        InitWith(rs, mapping, None,
                 Mail(None, << "\"", "N", "\"", " ", "<", "s", "@", "x", ">" >>, None, FALSE))

----------------------------------------------------------------------------
(* The handler, step by step *)

\* lines 50-73: fetch and parse the mail, capture the addresses, strip
Fetch ==
    /\ pc = "start"
    /\ original_from' = GetHeader(incoming, "From")
    /\ reply_to' = CaptureReplyTo(incoming)
    /\ return_path' = CaptureReturnPath(incoming)
    /\ msg' = RemoveNonForwarded(incoming)
    /\ at_least_one_recipient_found' = FALSE
    /\ idx' = 1
    /\ pc' = "loop"
    /\ UNCHANGED << recipients, FORWARD_MAPPING, VERIFIED_FROM_EMAIL, incoming,
                    recipient, verified_from_email, forward_to, raw_emails,
                    bounce_emails, error_logged >>

\* lines 74-108: one pass of the loop body up to the send
Rewrite ==
    /\ pc = "loop"
    /\ idx <= Len(recipients)
    /\ LET vfe == VerifiedFrom(VERIFIED_FROM_EMAIL, recipients[idx])
           fwd == Resolve(FORWARD_MAPPING, Lower(recipients[idx]))
       IN /\ verified_from_email' = vfe
          /\ msg' = SetHeader(SetHeader(RemoveEnvelope(msg), "From",
                                        NewFrom(original_from, vfe)),
                              "Reply-To", reply_to)
          /\ recipient' = Lower(recipients[idx])
          /\ forward_to' = fwd
          /\ at_least_one_recipient_found' = MarkFound(at_least_one_recipient_found, fwd)
          /\ pc' = IF Truthy(fwd) THEN "send" ELSE "loop"
          /\ idx' = IF Truthy(fwd) THEN idx ELSE idx + 1
    /\ UNCHANGED << recipients, FORWARD_MAPPING, VERIFIED_FROM_EMAIL, incoming,
                    original_from, reply_to, return_path, raw_emails,
                    bounce_emails, error_logged >>

RawEmail(ok) ==
    [idx |-> idx, Destinations |-> << forward_to >>, Data |-> msg, ok |-> ok]

\* lines 110-111: ses.send_raw_email returns
SendRawEmailOk ==
    /\ pc = "send"
    /\ raw_emails' = Append(raw_emails, RawEmail(TRUE))
    /\ pc' = "loop"
    /\ idx' = idx + 1
    /\ UNCHANGED << recipients, FORWARD_MAPPING, VERIFIED_FROM_EMAIL, incoming, msg,
                    original_from, reply_to, return_path,
                    at_least_one_recipient_found, recipient, verified_from_email,
                    forward_to, bounce_emails, error_logged >>

\* lines 110, 112-114: ses.send_raw_email raises ClientError
SendRawEmailFail ==
    /\ pc = "send"
    /\ raw_emails' = Append(raw_emails, RawEmail(FALSE))
    /\ pc' = IF ExceptClientError("ClientError") THEN "bounce" ELSE "raised"
    /\ UNCHANGED << recipients, FORWARD_MAPPING, VERIFIED_FROM_EMAIL, incoming, msg,
                    original_from, reply_to, return_path,
                    at_least_one_recipient_found, idx, recipient,
                    verified_from_email, forward_to, bounce_emails, error_logged >>

BounceEmail(ok) ==
    [idx |-> idx, Source |-> BounceSource(verified_from_email),
     Destination |-> BounceDestination(return_path, recipient), ok |-> ok]

\* lines 121-144: send_bounce, ses.send_email returns
SendBounceOk ==
    /\ pc = "bounce"
    /\ bounce_emails' = Append(bounce_emails, BounceEmail(TRUE))
    /\ pc' = "loop"
    /\ idx' = idx + 1
    /\ UNCHANGED << recipients, FORWARD_MAPPING, VERIFIED_FROM_EMAIL, incoming, msg,
                    original_from, reply_to, return_path,
                    at_least_one_recipient_found, recipient, verified_from_email,
                    forward_to, raw_emails, error_logged >>

\* lines 121-143, 145-146: send_bounce, ses.send_email raises ClientError
SendBounceFail ==
    /\ pc = "bounce"
    /\ bounce_emails' = Append(bounce_emails, BounceEmail(FALSE))
    /\ pc' = IF ExceptClientError("ClientError") THEN AfterBounceFailure ELSE "raised"
    /\ idx' = IF pc' = "loop" THEN idx + 1 ELSE idx
    /\ UNCHANGED << recipients, FORWARD_MAPPING, VERIFIED_FROM_EMAIL, incoming, msg,
                    original_from, reply_to, return_path,
                    at_least_one_recipient_found, recipient, verified_from_email,
                    forward_to, raw_emails, error_logged >>

\* lines 116-117: after the loop
Finish ==
    /\ pc = "loop"
    /\ idx > Len(recipients)
    /\ error_logged' = NoRecipientError(at_least_one_recipient_found)
    /\ pc' = "done"
    /\ UNCHANGED << recipients, FORWARD_MAPPING, VERIFIED_FROM_EMAIL, incoming, msg,
                    original_from, reply_to, return_path,
                    at_least_one_recipient_found, idx, recipient,
                    verified_from_email, forward_to, raw_emails, bounce_emails >>

Next ==
    \/ Fetch
    \/ Rewrite
    \/ SendRawEmailOk
    \/ SendRawEmailFail
    \/ SendBounceOk
    \/ SendBounceFail
    \/ Finish

Spec == Init /\ [][Next]_vars

SpecResolve == InitResolve /\ [][Next]_vars

----------------------------------------------------------------------------
(* Vocabulary of the properties *)

\* a pass of the loop body has run: recipient and forward_to belong to it
InLoopBody == recipient # None

\* the event's recipient that recipient and forward_to belong to
CurrentIndex == IF pc \in {"send", "bounce", "raised"} THEN idx ELSE idx - 1
CurrentRaw == recipients[CurrentIndex]

\* a lookup result as "a destination or nothing"
Norm(x) == IF Truthy(x) THEN x ELSE None

IsKey(k) == k \in DOMAIN FORWARD_MAPPING
IsLiveKey(k) == IsKey(k) /\ FORWARD_MAPPING[k] # << >>

\* the three forms of a recipient: full address, local-part, local-part
\* without its '+' suffix
FullOf(raw) == Lower(raw)
LocalOf(raw) == SplitFirst(Lower(raw), "@")
StrippedOf(raw) == SplitFirst(LocalOf(raw), "+")

\* the recipient has the form user+tag@domain
IsTagged(raw) == IndexOf(LocalOf(raw), "+") > 1

HasUpper(k) == \E i \in 1..Len(k) : k[i] \in {"A", "T", "D", "N"}

----------------------------------------------------------------------------
(* Recipient resolution *)

\* C1 as stated: the first of the full address, the local-part and the
\* suffix-stripped local-part that is a key of the mapping gives the result.
C1_FirstKeyWins ==
    InLoopBody =>
        IF IsKey(FullOf(CurrentRaw))
        THEN Norm(forward_to) = Norm(FORWARD_MAPPING[FullOf(CurrentRaw)])
        ELSE IF IsKey(LocalOf(CurrentRaw))
        THEN Norm(forward_to) = Norm(FORWARD_MAPPING[LocalOf(CurrentRaw)])
        ELSE IF IsKey(StrippedOf(CurrentRaw))
        THEN Norm(forward_to) = Norm(FORWARD_MAPPING[StrippedOf(CurrentRaw)])
        ELSE TRUE

\* C1, amended: the first of the full address, the local-part and the
\* suffix-stripped local-part that is a key with a non-empty destination
\* gives the result; a key mapped to '' counts as absent.
C1_FirstLiveKeyWins ==
    InLoopBody =>
        IF IsLiveKey(FullOf(CurrentRaw))
        THEN forward_to = FORWARD_MAPPING[FullOf(CurrentRaw)]
        ELSE IF IsLiveKey(LocalOf(CurrentRaw))
        THEN forward_to = FORWARD_MAPPING[LocalOf(CurrentRaw)]
        ELSE IF IsLiveKey(StrippedOf(CurrentRaw))
        THEN forward_to = FORWARD_MAPPING[StrippedOf(CurrentRaw)]
        ELSE TRUE

\* a recipient matching all three forms is forwarded to the destination of
\* its full address
C1_Witness ==
    /\ pc = "send"
    /\ IsTagged(CurrentRaw)
    /\ IsLiveKey(FullOf(CurrentRaw))
    /\ IsLiveKey(LocalOf(CurrentRaw))
    /\ IsLiveKey(StrippedOf(CurrentRaw))
    /\ forward_to = FORWARD_MAPPING[FullOf(CurrentRaw)]
    /\ forward_to # FORWARD_MAPPING[LocalOf(CurrentRaw)]

\* C2 as stated: for user+tag@domain, a mapping with the key user and neither
\* the full address nor user+tag yields the destination of user; a more
\* specific key, when present, is used instead.
C2_BareUserForwardsTags ==
    (InLoopBody /\ IsTagged(CurrentRaw)) =>
        /\ (IsKey(StrippedOf(CurrentRaw)) /\ ~IsKey(FullOf(CurrentRaw))
                /\ ~IsKey(LocalOf(CurrentRaw)))
             => Norm(forward_to) = Norm(FORWARD_MAPPING[StrippedOf(CurrentRaw)])
        /\ IsKey(FullOf(CurrentRaw))
             => Norm(forward_to) = Norm(FORWARD_MAPPING[FullOf(CurrentRaw)])
        /\ (IsKey(LocalOf(CurrentRaw)) /\ ~IsKey(FullOf(CurrentRaw)))
             => Norm(forward_to) = Norm(FORWARD_MAPPING[LocalOf(CurrentRaw)])

\* C2, amended: for a recipient whose lower-cased form is user+tag@domain, a
\* mapping where user has a non-empty destination and neither the full
\* address nor user+tag has one yields the destination of user; a more
\* specific key with a non-empty destination is used instead.
C2_BareUserForwardsTagsLive ==
    (InLoopBody /\ IsTagged(CurrentRaw)) =>
        /\ (IsLiveKey(StrippedOf(CurrentRaw)) /\ ~IsLiveKey(FullOf(CurrentRaw))
                /\ ~IsLiveKey(LocalOf(CurrentRaw)))
             => forward_to = FORWARD_MAPPING[StrippedOf(CurrentRaw)]
        /\ IsLiveKey(FullOf(CurrentRaw))
             => forward_to = FORWARD_MAPPING[FullOf(CurrentRaw)]
        /\ (IsLiveKey(LocalOf(CurrentRaw)) /\ ~IsLiveKey(FullOf(CurrentRaw)))
             => forward_to = FORWARD_MAPPING[LocalOf(CurrentRaw)]

\* a tagged recipient is forwarded through the bare user key alone
C2_Witness ==
    /\ pc = "send"
    /\ IsTagged(CurrentRaw)
    /\ IsLiveKey(StrippedOf(CurrentRaw))
    /\ ~IsKey(FullOf(CurrentRaw))
    /\ ~IsKey(LocalOf(CurrentRaw))
    /\ forward_to = FORWARD_MAPPING[StrippedOf(CurrentRaw)]

\* the keys resolution looks up: the lower-cased full address, its text
\* before '@' and its text before the first '+'
LookedUp(raw) ==
    { Lower(raw), SplitFirst(Lower(raw), "@"), SplitFirst(Lower(raw), "+") }

\* the address user@domain of a tagged recipient user+tag@domain
Untagged(raw) ==
    StrippedOf(raw) \o SubSeq(Lower(raw), IndexOf(Lower(raw), "@"), Len(raw))

\* C10: a destination is returned, and anything is sent, only through one of
\* the three looked-up keys with a non-empty value; a tagged recipient is not
\* matched through the untagged full address, and no key with an upper-case
\* letter is ever matched (every key has a destination of its own, so the
\* destination tells the key that matched).
C10_OnlyThreeKeys ==
    /\ InLoopBody =>
        /\ Truthy(forward_to) =>
             /\ \E k \in LookedUp(CurrentRaw) :
                    IsLiveKey(k) /\ forward_to = FORWARD_MAPPING[k]
             /\ \A k \in DOMAIN FORWARD_MAPPING :
                    HasUpper(k) => forward_to # FORWARD_MAPPING[k]
        /\ (\A k \in LookedUp(CurrentRaw) : ~IsLiveKey(k)) =>
             /\ ~Truthy(forward_to)
             /\ pc \notin {"send", "bounce"}
             /\ \A i \in 1..Len(raw_emails) : raw_emails[i].idx # CurrentIndex
             /\ \A i \in 1..Len(bounce_emails) : bounce_emails[i].idx # CurrentIndex
    /\ \A i \in 1..Len(raw_emails) :
         \E k \in LookedUp(recipients[raw_emails[i].idx]) :
             IsLiveKey(k) /\ raw_emails[i].Destinations = << FORWARD_MAPPING[k] >>

\* a tagged recipient whose untagged full address is a key, and an upper-case
\* recipient whose own spelling is a key, go unmatched
C10_Witness ==
    /\ pc = "done"
    /\ Len(recipients) = 1
    /\ \/ IsTagged(recipients[1]) /\ IsLiveKey(Untagged(recipients[1]))
       \/ HasUpper(recipients[1]) /\ IsLiveKey(recipients[1])
    /\ ~Truthy(forward_to)
    /\ raw_emails = << >>
    /\ bounce_emails = << >>

----------------------------------------------------------------------------
(* Header rewriting *)

\* the values of the headers of a message that bear a name
ValuesOf(m, name) == [i \in 1..Len(Named(m, name)) |-> Named(m, name)[i].value]

\* the incoming message has a header of that name with a non-empty value
Has(name) == \E i \in 1..Len(incoming) :
    LowerName(incoming[i].name) = LowerName(name) /\ incoming[i].value # << >>

\* first value of the incoming header of that name
Original(name) == GetHeader(incoming, name)

ExpectedFromName ==
    IF parseaddr(Original("From"))[1] # << >>
    THEN parseaddr(Original("From"))[1]
    ELSE parseaddr(Original("From"))[2]

\* domain of a recipient as the event spells it
DomainOf(raw) == SubSeq(raw, IndexOf(raw, "@") + 1, Len(raw))

\* the verified sender address for a recipient
ExpectedVerified(raw) ==
    IF VERIFIED_FROM_EMAIL # None /\ IndexOf(VERIFIED_FROM_EMAIL, "@") > 0
    THEN VERIFIED_FROM_EMAIL
    ELSE (IF VERIFIED_FROM_EMAIL # None /\ VERIFIED_FROM_EMAIL # << >>
          THEN VERIFIED_FROM_EMAIL
          ELSE << "n", "o", "r", "e", "p", "l", "y" >>)
         \o << "@" >> \o DomainOf(raw)

\* C9: every message passed to the forward send has exactly one From and
\* exactly one Reply-To header; the From header parses to the original
\* sender's display name (or address) and the verified sender address of the
\* recipient the message is sent for.
C9_OneFromOneReplyTo ==
    \A i \in 1..Len(raw_emails) :
        /\ Len(Named(raw_emails[i].Data, "From")) = 1
        /\ Len(Named(raw_emails[i].Data, "Reply-To")) = 1
        /\ parseaddr(GetHeader(raw_emails[i].Data, "From")) =
               << ExpectedFromName, ExpectedVerified(recipients[raw_emails[i].idx]) >>

\* a forward for a second recipient of another domain than the first, with
\* the sender address synthesized from the recipient's domain
C9_Witness ==
    /\ Len(raw_emails) >= 1
    /\ raw_emails[Len(raw_emails)].idx = 2
    /\ DomainOf(recipients[1]) # DomainOf(recipients[2])
    /\ VERIFIED_FROM_EMAIL = None
    /\ parseaddr(GetHeader(raw_emails[Len(raw_emails)].Data, "From"))[2] =
           << "n", "o", "r", "e", "p", "l", "y", "@" >> \o DomainOf(recipients[2])

\* the Reply-To every outbound message must carry ("has one" read as: has a
\* header of that name with a non-empty value)
ExpectedReplyTo == IF Has("Reply-To") THEN Original("Reply-To") ELSE Original("From")

\* the header the bounce target is taken from
ExpectedReturnPath ==
    IF Has("Return-Path") THEN Original("Return-Path") ELSE ExpectedReplyTo

\* C7: the Reply-To of every outbound message is the original Reply-To when
\* the incoming message has one and the original From otherwise; the target
\* of every bounce is the bare address of the original Return-Path when the
\* incoming message has one and of the resolved Reply-To otherwise.
C7_ReplyAndBounceAddresses ==
    /\ \A i \in 1..Len(raw_emails) :
           ValuesOf(raw_emails[i].Data, "Reply-To") = << ExpectedReplyTo >>
    /\ \A i \in 1..Len(bounce_emails) :
           bounce_emails[i].Destination.ToAddresses =
               << parseaddr(ExpectedReturnPath)[2] >>

\* From "N" <s@x>, no Reply-To, no Return-Path: a forward with that From as
\* Reply-To and a bounce to s@x, for the second recipient of the event
C7_Witness ==
    /\ Original("From") = << "\"", "N", "\"", " ", "<", "s", "@", "x", ">" >>
    /\ Original("Reply-To") = None
    /\ Original("Return-Path") = None
    /\ Len(bounce_emails) >= 1
    /\ bounce_emails[Len(bounce_emails)].idx = 2
    /\ bounce_emails[Len(bounce_emails)].Destination.ToAddresses = << << "s", "@", "x" >> >>
    /\ ValuesOf(raw_emails[Len(raw_emails)].Data, "Reply-To") = << Original("From") >>

\* C8 as stated: every bounce has the bare address of the incoming From
\* header as its only To address and the recipient whose forward failed as
\* its only Cc address.
C8_BounceToOriginalSender ==
    \A i \in 1..Len(bounce_emails) :
        /\ bounce_emails[i].Destination.ToAddresses = << parseaddr(Original("From"))[2] >>
        /\ bounce_emails[i].Destination.CcAddresses =
               << Lower(recipients[bounce_emails[i].idx]) >>

\* C8, amended: every bounce has as its only To address the bare address of
\* the incoming Return-Path, or of the Reply-To when there is no non-empty
\* Return-Path, or of the From when there is no non-empty Reply-To either,
\* and as its only Cc address the lower-cased recipient whose forward failed.
C8_BounceToReturnPath ==
    \A i \in 1..Len(bounce_emails) :
        /\ bounce_emails[i].Destination.ToAddresses =
               << IF Has("Return-Path") THEN << "b", "@", "z" >>
                  ELSE IF Has("Reply-To") THEN << "r", "@", "y" >>
                  ELSE << "s", "@", "x" >> >>
        /\ bounce_emails[i].Destination.CcAddresses =
               << Lower(recipients[bounce_emails[i].idx]) >>
        /\ \E j \in 1..Len(raw_emails) :
               raw_emails[j].idx = bounce_emails[i].idx /\ ~raw_emails[j].ok

\* a bounce for a mail whose Return-Path differs from its From
C8_Witness ==
    /\ Has("Return-Path")
    /\ Len(bounce_emails) >= 1
    /\ bounce_emails[1].Destination.ToAddresses = << << "b", "@", "z" >> >>
    /\ bounce_emails[1].Destination.ToAddresses # << parseaddr(Original("From"))[2] >>

----------------------------------------------------------------------------
(* Dispatch *)

\* recipient i of the event resolves to a destination
Resolves(i) == \E k \in LookedUp(recipients[i]) : IsLiveKey(k)

ForwardsFor(i) == { j \in 1..Len(raw_emails) : raw_emails[j].idx = i }
FailedFor(i) == { j \in ForwardsFor(i) : ~raw_emails[j].ok }
BouncesFor(i) == { j \in 1..Len(bounce_emails) : bounce_emails[j].idx = i }

C6_NoRecipientError ==
    /\ pc # "done" => ~error_logged
    /\ pc = "done" =>
           /\ error_logged <=> (\A i \in 1..Len(recipients) : ~Resolves(i))
           /\ error_logged => raw_emails = << >> /\ bounce_emails = << >>
    /\ pc # "raised"

\* an event with recipients, none of them resolving, ended with the error
C6_Witness ==
    /\ pc = "done"
    /\ Len(recipients) >= 1
    /\ error_logged
    /\ raw_emails = << >>

====
